---- MODULE Spec2Model ----
(***************************************************************************)
(* Model of server/server.js: the authoritative two-player soccer server.  *)
(*                                                                         *)
(* Numbers.  The program computes in IEEE doubles; the model computes in   *)
(* fixed point.  Lengths, velocities and the move input are in thousandths *)
(* (SCALE), times (dt, game.t, game.matchLeft, Date.now()) in              *)
(* milliseconds, angles in whole degrees (the inputs drawn here produce    *)
(* only multiples of 45 degrees).  Quotients truncate toward zero.         *)
(*                                                                         *)
(* Scheduling.  Node runs every handler and every timer callback to        *)
(* completion on one thread, so each is one atomic action.                 *)
(***************************************************************************)
EXTENDS Integers, Sequences, FiniteSets, TLC

\* ------------------------------------------------------------------ bounds
\* Tokens issued by POST /join, streams opened by GET /events, and calls of
\* POST /input by one session in one second: lifecycle specification.
MaxTokens == 3
MaxConns == 1
MaxCalls == 1
\* Stream specification.
StreamTokens == 2
StreamConns == 2
\* Liveness specification.
LiveTokens == 2
LiveConns == 1
\* Rate specification: tokens, and calls followed beyond MAX_INPUT_PER_SEC.
RateTokens == 2
RateExtra == 2
\* Countdown specification: tokens and streams, the two of its initial
\* states included.
MatchTokens == 3
MatchConns == 3

\* Rejoin specification: tokens.
RejoinTokens == 4

\* --------------------------------------------------------------- constants
SCALE == 1000
MAX_INPUT_PER_SEC == 30
SESSION_TTL_MS == 35000
FIELD == [w |-> 40 * SCALE, h |-> 24 * SCALE]
GOAL == [halfH |-> 4200]
MATCH_DUR == 6 * 60 * 1000
STYLE == [speed |-> 7100, kickShoot |-> 16000, kickPass |-> 10000, control |-> 1000]
\* Math.min(0.05, ...) of the simulation loop, in ms.
MAX_DT == 50
\* setInterval(..., 1000 / 60): the timer's delay in whole ms.
TICK_MS == 16
\* sendAcc >= 0.05, in ms.
SEND_MS == 50
\* .slice(0, 14)
NAME_MAX == 14

NULL == 0
\* "P1", "P2" and "Player" as character codes.
NAME_P1 == <<80, 49>>
NAME_P2 == <<80, 50>>
NAME_DEFAULT == <<80, 108, 97, 121, 101, 114>>

\* ----------------------------------------------------------------- helpers
Abs(a) == IF a < 0 THEN -a ELSE a
Min(a, b) == IF a < b THEN a ELSE b
Max(a, b) == IF a > b THEN a ELSE b
\* a / b of two numbers, truncated toward zero (b > 0).
Quot(a, b) == IF a >= 0 THEN a \div b ELSE -((-a) \div b)

clamp(v, a, b) == Max(a, Min(b, v))

\* Newton's iteration from above.
IsqrtIter[n \in Nat, x \in Nat] ==
  LET y == (x + n \div x) \div 2
  IN IF y >= x THEN x ELSE IsqrtIter[n, y]
\* floor of the square root.
Isqrt(n) == IF n = 0 THEN 0 ELSE IsqrtIter[n, 46340]

\* Math.hypot on thousandths; operands too large to square in 32 bits are
\* squared at a hundredth's precision.
Hypot(a, b) ==
  IF Abs(a) <= 30000 /\ Abs(b) <= 30000
  THEN Isqrt(a * a + b * b)
  ELSE 10 * Isqrt((a \div 10) * (a \div 10) + (b \div 10) * (b \div 10))

\* Math.sin and Math.cos of an angle in degrees, in thousandths.
Sin(rot) ==
  CASE rot = 0 -> 0
    [] rot = 45 -> 707
    [] rot = 90 -> 1000
    [] rot = 135 -> 707
    [] rot = 180 -> 0
    [] rot = -45 -> -707
    [] rot = -90 -> -1000
    [] rot = -135 -> -707
Cos(rot) ==
  CASE rot = 0 -> 1000
    [] rot = 45 -> 707
    [] rot = 90 -> 0
    [] rot = 135 -> -707
    [] rot = 180 -> -1000
    [] rot = -45 -> 707
    [] rot = -90 -> 0
    [] rot = -135 -> -707
\* Math.atan2(y, x) in degrees, for arguments on an axis or a diagonal.
Atan2(y, x) ==
  CASE y = 0 /\ x >= 0 -> 0
    [] y = 0 /\ x < 0 -> 180
    [] x = 0 /\ y > 0 -> 90
    [] x = 0 /\ y < 0 -> -90
    [] y > 0 /\ x > 0 -> 45
    [] y > 0 /\ x < 0 -> 135
    [] y < 0 /\ x > 0 -> -45
    [] y < 0 /\ x < 0 -> -135

\* Math.pow(0.22, dt) in thousandths, dt in ms, 0 <= dt <= 50.
Pow022Table ==
  << 1000, 998, 997, 995, 994, 992, 991, 989, 988, 986, 985, 983, 982, 981,
     979, 978, 976, 975, 973, 972, 970, 969, 967, 966, 964, 963, 961, 960,
     958, 957, 956, 954, 953, 951, 950, 948, 947, 946, 944, 943, 941, 940,
     938, 937, 936, 934, 933, 931, 930, 928, 927 >>
Pow022(dt) == Pow022Table[dt + 1]

\* ------------------------------------------------------------------- state
VARIABLES
  GAME_KEY,   \* process.env.GAME_KEY || ""
  game,       \* the game object
  sessions,   \* Map token -> session
  conns,      \* the responses of GET /events: conn -> [token, open, ended]
  nextToken,  \* tokens are fresh: crypto.randomBytes(24)
  now,        \* Date.now()
  last,       \* let last
  sendAcc,    \* let sendAcc
  sent,       \* the responses the latest tick wrote a "state" event to
  resp,       \* the response of the latest request, NoResp after another step
  trace,      \* the intermediate values of the latest tick, NoTrace otherwise
  calls       \* history: live controlling token -> a wall-clock second and how
              \* many POST /input it has made in that second

vars == <<GAME_KEY, game, sessions, conns, nextToken, now, last, sendAcc, sent, resp, trace, calls>>

Roles == {"p1", "p2"}
NoResp == [op |-> "none", status |-> 0, token |-> 0, role |-> ""]
NoTrace == [ran |-> FALSE]

game0 ==
  [ t |-> 0,
    matchLeft |-> MATCH_DUR,
    score |-> [p1 |-> 0, p2 |-> 0],
    players |->
      [ p1 |-> [name |-> NAME_P1, x |-> -10 * SCALE, z |-> 0, vx |-> 0, vz |-> 0,
                rot |-> 0, hasBall |-> FALSE],
        p2 |-> [name |-> NAME_P2, x |-> 10 * SCALE, z |-> 0, vx |-> 0, vz |-> 0,
                rot |-> 180, hasBall |-> FALSE] ],
    ball |-> [x |-> 0, z |-> 0, vx |-> 0, vz |-> 0] ]

input0 == [moveX |-> 0, moveZ |-> 0, sprint |-> FALSE, shoot |-> FALSE, pass |-> FALSE]

\* The process as started without GAME_KEY.
Init ==
  /\ GAME_KEY = ""
  /\ game = game0
  /\ sessions = << >>
  /\ conns = << >>
  /\ nextToken = 1
  /\ now = 0
  /\ last = 0
  /\ sendAcc = 0
  /\ sent = {}
  /\ resp = NoResp
  /\ trace = NoTrace
  /\ calls = << >>

\* ---------------------------------------------------------- pure functions
countRoles(ss) ==
  [ p1 |-> Cardinality({k \in DOMAIN ss : ss[k].role = "p1"}),
    p2 |-> Cardinality({k \in DOMAIN ss : ss[k].role = "p2"}),
    spec |-> Cardinality({k \in DOMAIN ss : ss[k].role \notin Roles}),
    total |-> Cardinality(DOMAIN ss) ]

\* pickRole without the test of the secondary role.
pickRoleNoSecondTest(ss) ==
  LET c == countRoles(ss)
  IN IF c.p1 = 0 THEN "p1" ELSE "p2"

\* pickRole queueing a joiner behind the observers already registered.
pickRoleBehindObservers(ss) ==
  LET c == countRoles(ss)
  IN IF c.spec > 0 THEN "spec"
     ELSE IF c.p1 = 0 THEN "p1" ELSE IF c.p2 = 0 THEN "p2" ELSE "spec"

\* pickRole testing the roles in the other order.
pickRoleSecondFirst(ss) ==
  LET c == countRoles(ss)
  IN IF c.p2 = 0 THEN "p2" ELSE IF c.p1 = 0 THEN "p1" ELSE "spec"

pickRole(ss) ==
  LET c == countRoles(ss)
  IN IF c.p1 = 0 THEN "p1" ELSE IF c.p2 = 0 THEN "p2" ELSE "spec"

\* The responses broadcast writes to.
broadcast(ss, cs) ==
  {ss[k].sseRes : k \in {j \in DOMAIN ss : ss[j].sseRes # NULL /\ ~cs[ss[j].sseRes].ended}}

\* A kickoff reset that also starts a new match.
resetKickoffNewMatch(g, kickoff) ==
  [g EXCEPT
    !.players.p1 = [@ EXCEPT !.x = -10 * SCALE, !.z = 0, !.vx = 0, !.vz = 0, !.hasBall = FALSE],
    !.players.p2 = [@ EXCEPT !.x = 10 * SCALE, !.z = 0, !.vx = 0, !.vz = 0, !.hasBall = FALSE],
    !.ball = [x |-> 0, z |-> 0, vx |-> IF kickoff = "p1" THEN -200 ELSE 200, vz |-> 0],
    !.score = [p1 |-> 0, p2 |-> 0],
    !.matchLeft = MATCH_DUR]

resetKickoff(g, kickoff) ==
  [g EXCEPT
    !.players.p1 = [@ EXCEPT !.x = -10 * SCALE, !.z = 0, !.vx = 0, !.vz = 0, !.hasBall = FALSE],
    !.players.p2 = [@ EXCEPT !.x = 10 * SCALE, !.z = 0, !.vx = 0, !.vz = 0, !.hasBall = FALSE],
    !.ball = [x |-> 0, z |-> 0, vx |-> IF kickoff = "p1" THEN -200 ELSE 200, vz |-> 0]]

applyMove(p, inp, dt) ==
  LET mx == clamp(inp.moveX, -SCALE, SCALE)
      mz == clamp(inp.moveZ, -SCALE, SCALE)
      l == Hypot(mx, mz)
      nx == IF l > SCALE THEN Quot(mx * SCALE, l) ELSE mx
      nz == IF l > SCALE THEN Quot(mz * SCALE, l) ELSE mz
      sprint == inp.sprint /\ l > 50
      sp == Quot(STYLE.speed * (IF sprint THEN 1350 ELSE 1000), SCALE)
      vx == Quot(nx * sp, SCALE)
      vz == Quot(nz * sp, SCALE)
  IN [p EXCEPT
       !.vx = vx,
       !.vz = vz,
       !.x = clamp(p.x + Quot(vx * dt, 1000), -(FIELD.w \div 2), FIELD.w \div 2),
       !.z = clamp(p.z + Quot(vz * dt, 1000), -(FIELD.h \div 2), FIELD.h \div 2),
       !.rot = IF Hypot(vx, vz) > 100 THEN Atan2(vx, vz) ELSE p.rot]

\* updatePossession without the arbitration between two possessors.
updatePossessionNoArbitration(g) ==
  LET b == g.ball
      p1 == g.players.p1
      p2 == g.players.p2
      d1 == Hypot(b.x - p1.x, b.z - p1.z)
      d2 == Hypot(b.x - p2.x, b.z - p2.z)
      r == Quot(1050 * STYLE.control, SCALE)
      has1 == d1 < r
      has2 == d2 < r
      owner == IF has1 THEN p1 ELSE p2
      tx == owner.x + Quot(Sin(owner.rot) * 900, SCALE)
      tz == owner.z + Quot(Cos(owner.rot) * 900, SCALE)
      g1 == [g EXCEPT !.players.p1.hasBall = has1, !.players.p2.hasBall = has2]
  IN IF has1 \/ has2
     THEN [g1 EXCEPT
            !.ball.vx = @ + Quot((tx - b.x) * 16 * STYLE.control, SCALE),
            !.ball.vz = @ + Quot((tz - b.z) * 16 * STYLE.control, SCALE)]
     ELSE g1

updatePossession(g) ==
  LET b == g.ball
      p1 == g.players.p1
      p2 == g.players.p2
      d1 == Hypot(b.x - p1.x, b.z - p1.z)
      d2 == Hypot(b.x - p2.x, b.z - p2.z)
      r == Quot(1050 * STYLE.control, SCALE)
      h1 == d1 < r
      h2 == d2 < r
      has1 == IF h1 /\ h2 /\ ~(d1 <= d2) THEN FALSE ELSE h1
      has2 == IF h1 /\ h2 /\ d1 <= d2 THEN FALSE ELSE h2
      owner == IF has1 THEN p1 ELSE p2
      tx == owner.x + Quot(Sin(owner.rot) * 900, SCALE)
      tz == owner.z + Quot(Cos(owner.rot) * 900, SCALE)
      g1 == [g EXCEPT !.players.p1.hasBall = has1, !.players.p2.hasBall = has2]
  IN IF has1 \/ has2
     THEN [g1 EXCEPT
            !.ball.vx = @ + Quot((tx - b.x) * 16 * STYLE.control, SCALE),
            !.ball.vz = @ + Quot((tz - b.z) * 16 * STYLE.control, SCALE)]
     ELSE g1

\* kick without the possession test.
kickAlways(g, who, kind) ==
  LET p == g.players[who]
      power == IF kind = "pass" THEN STYLE.kickPass ELSE STYLE.kickShoot
  IN [g EXCEPT
       !.players[who].hasBall = FALSE,
       !.ball.vx = @ + Quot(Sin(p.rot) * power, SCALE),
       !.ball.vz = @ + Quot(Cos(p.rot) * power, SCALE)]

kick(g, who, kind) ==
  LET p == g.players[who]
      power == IF kind = "pass" THEN STYLE.kickPass ELSE STYLE.kickShoot
  IN IF ~p.hasBall
     THEN g
     ELSE [g EXCEPT
            !.players[who].hasBall = FALSE,
            !.ball.vx = @ + Quot(Sin(p.rot) * power, SCALE),
            !.ball.vz = @ + Quot(Cos(p.rot) * power, SCALE)]

\* updateBall up to the goal test, without the reflections at the short edges.
moveBallNoShortEdge(g, dt) ==
  LET b == g.ball
      vx1 == Quot(b.vx * Pow022(dt), 1000)
      vz1 == Quot(b.vz * Pow022(dt), 1000)
      x1 == b.x + Quot(vx1 * dt, 1000)
      z1 == b.z + Quot(vz1 * dt, 1000)
      tz == -(FIELD.h \div 2)
      bz == FIELD.h \div 2
      z2 == IF z1 < tz THEN tz ELSE z1
      vz2 == IF z1 < tz THEN Quot(Abs(vz1) * 8, 10) ELSE vz1
      z3 == IF z2 > bz THEN bz ELSE z2
      vz3 == IF z2 > bz THEN -Quot(Abs(vz2) * 8, 10) ELSE vz2
  IN [g EXCEPT !.ball = [x |-> x1, z |-> z3, vx |-> vx1, vz |-> vz3]]

\* updateBall up to the goal test: friction, integration, reflections.
moveBall(g, dt) ==
  LET b == g.ball
      vx1 == Quot(b.vx * Pow022(dt), 1000)
      vz1 == Quot(b.vz * Pow022(dt), 1000)
      x1 == b.x + Quot(vx1 * dt, 1000)
      z1 == b.z + Quot(vz1 * dt, 1000)
      lx == -(FIELD.w \div 2)
      rx == FIELD.w \div 2
      tz == -(FIELD.h \div 2)
      bz == FIELD.h \div 2
      z2 == IF z1 < tz THEN tz ELSE z1
      vz2 == IF z1 < tz THEN Quot(Abs(vz1) * 8, 10) ELSE vz1
      z3 == IF z2 > bz THEN bz ELSE z2
      vz3 == IF z2 > bz THEN -Quot(Abs(vz2) * 8, 10) ELSE vz2
      hitL == x1 < lx /\ Abs(z3) > GOAL.halfH
      x2 == IF hitL THEN lx ELSE x1
      vx2 == IF hitL THEN Quot(Abs(vx1) * 8, 10) ELSE vx1
      hitR == x2 > rx /\ Abs(z3) > GOAL.halfH
      x3 == IF hitR THEN rx ELSE x2
      vx3 == IF hitR THEN -Quot(Abs(vx2) * 8, 10) ELSE vx2
  IN [g EXCEPT !.ball = [x |-> x3, z |-> z3, vx |-> vx3, vz |-> vz3]]

\* goals crediting the side whose own line was crossed.
goalsOwnSide(g) ==
  LET lx == -(FIELD.w \div 2)
      rx == FIELD.w \div 2
      g1 == IF g.ball.x < lx /\ Abs(g.ball.z) <= GOAL.halfH
            THEN resetKickoff([g EXCEPT !.score.p1 = @ + 1], "p1")
            ELSE g
  IN IF g1.ball.x > rx /\ Abs(g1.ball.z) <= GOAL.halfH
     THEN resetKickoff([g1 EXCEPT !.score.p2 = @ + 1], "p2")
     ELSE g1

\* The goal tests of updateBall, one after the other.
goals(g) ==
  LET lx == -(FIELD.w \div 2)
      rx == FIELD.w \div 2
      g1 == IF g.ball.x < lx /\ Abs(g.ball.z) <= GOAL.halfH
            THEN resetKickoff([g EXCEPT !.score.p2 = @ + 1], "p1")
            ELSE g
  IN IF g1.ball.x > rx /\ Abs(g1.ball.z) <= GOAL.halfH
     THEN resetKickoff([g1 EXCEPT !.score.p1 = @ + 1], "p2")
     ELSE g1

updateBall(g, dt) == goals(moveBall(g, dt))

\* ---------------------------------------------------------------- handlers
Response(op, status, token, role) ==
  [op |-> op, status |-> status, token |-> token, role |-> role]

\* The answer to POST /join, with the key the request presented.
JoinResponse(status, token, role, key) ==
  [op |-> "join", status |-> status, token |-> token, role |-> role, key |-> key]

\* String(req.body?.name || "Player").slice(0, 14)
sliceName(name) ==
  LET n == IF name = << >> THEN NAME_DEFAULT ELSE name
  IN SubSeq(n, 1, Min(Len(n), NAME_MAX))

\* The key test answering every join as if no key were configured.
forbiddenNever(gameKey, key) == FALSE

\* GAME_KEY && key !== GAME_KEY
forbidden(gameKey, key) == gameKey # "" /\ key # gameKey

\* A join that also puts the players and the ball back at the kickoff.
joinNameAndKickoff(g, role, name) ==
  IF role \in Roles
  THEN resetKickoff([g EXCEPT !.players[role].name = name], role)
  ELSE g

\* if (role === "p1") game.players.p1.name = name; and the same for p2.
joinName(g, role, name) ==
  IF role \in Roles THEN [g EXCEPT !.players[role].name = name] ELSE g

\* GET /health
Health ==
  /\ resp' = Response("health", 200, 0, "")
  /\ trace' = NoTrace
  /\ UNCHANGED <<GAME_KEY, game, sessions, conns, nextToken, now, last, sendAcc, sent, calls>>

\* POST /join
Join(name, key) ==
  /\ IF forbidden(GAME_KEY, key)
     THEN /\ resp' = JoinResponse(403, 0, "", key)
          /\ UNCHANGED <<game, sessions, nextToken, calls>>
     ELSE LET role == pickRole(sessions)
              token == nextToken
          IN /\ sessions' = sessions @@ (token :>
                  [ role |-> role, name |-> sliceName(name), input |-> input0,
                    sseRes |-> NULL, lastSeen |-> now, rateSec |-> now \div 1000,
                    rateCount |-> 0 ])
             /\ nextToken' = nextToken + 1
             /\ game' = joinName(game, role, sliceName(name))
             /\ resp' = JoinResponse(200, token, role, key)
             /\ calls' = IF role \in Roles
                         THEN calls @@ (token :> [sec |-> now \div 1000, n |-> 0])
                         ELSE calls
  /\ trace' = NoTrace
  /\ UNCHANGED <<GAME_KEY, conns, now, last, sendAcc, sent>>

\* GET /events
Events(token) ==
  /\ IF token \notin DOMAIN sessions
     THEN /\ resp' = Response("events", 401, token, "")
          /\ UNCHANGED <<sessions, conns>>
     ELSE LET res == Len(conns) + 1
          IN /\ sessions' = [sessions EXCEPT ![token].lastSeen = now, ![token].sseRes = res]
             /\ conns' = Append(conns, [token |-> token, open |-> TRUE, ended |-> FALSE])
             /\ resp' = Response("events", 200, token, sessions[token].role)
  /\ trace' = NoTrace
  /\ UNCHANGED <<GAME_KEY, game, nextToken, now, last, sendAcc, sent, calls>>

\* req.on("close") of GET /events: the transport of response res has closed.
EventsClose(res) ==
  /\ conns[res].open
  /\ conns' = [conns EXCEPT ![res].open = FALSE]
  /\ sessions' = IF conns[res].token \in DOMAIN sessions
                 THEN [sessions EXCEPT ![conns[res].token].sseRes = NULL]
                 ELSE sessions
  /\ resp' = NoResp
  /\ trace' = NoTrace
  /\ UNCHANGED <<GAME_KEY, game, nextToken, now, last, sendAcc, sent, calls>>

\* The rate-limit test off by one.
rateLimitedFrom30(rateCount) == rateCount >= MAX_INPUT_PER_SEC

\* The rate-limit test of POST /input.
rateLimited(rateCount) == rateCount > MAX_INPUT_PER_SEC

\* The spectator test letting every role control.
controlsAnyRole(role) == TRUE

\* "spectators can't control": sess.role === "p1" || sess.role === "p2"
controls(role) == role \in Roles

\* POST /input
Input(token, msg) ==
  /\ IF token \notin DOMAIN sessions
     THEN /\ resp' = Response("input", 401, token, "")
          /\ UNCHANGED sessions
     ELSE LET sess == sessions[token]
              sec == now \div 1000
              rateSec == sec
              count0 == IF sess.rateSec # sec THEN 0 ELSE sess.rateCount
              rateCount == count0 + 1
          IN IF ~controls(sess.role)
             THEN /\ sessions' = [sessions EXCEPT ![token].lastSeen = now]
                  /\ resp' = Response("input", 200, token, sess.role)
             ELSE IF rateLimited(rateCount)
             THEN /\ sessions' = [sessions EXCEPT ![token].lastSeen = now,
                                    ![token].rateSec = rateSec, ![token].rateCount = rateCount]
                  /\ resp' = Response("input", 429, token, sess.role)
             ELSE /\ sessions' = [sessions EXCEPT ![token].lastSeen = now,
                                    ![token].rateSec = rateSec, ![token].rateCount = rateCount,
                                    ![token].input =
                                      [ moveX |-> clamp(msg.moveX, -SCALE, SCALE),
                                        moveZ |-> clamp(msg.moveZ, -SCALE, SCALE),
                                        sprint |-> msg.sprint, shoot |-> msg.shoot,
                                        pass |-> msg.pass ]]
                  /\ resp' = Response("input", 200, token, sess.role)
  /\ calls' = IF token \in DOMAIN calls
              THEN [calls EXCEPT ![token] =
                     IF @.sec = now \div 1000
                     THEN [@ EXCEPT !.n = @ + 1]
                     ELSE [sec |-> now \div 1000, n |-> 1]]
              ELSE calls
  /\ trace' = NoTrace
  /\ UNCHANGED <<GAME_KEY, game, conns, nextToken, now, last, sendAcc, sent>>

\* ----------------------------------------------------------- simulation loop
\* The cleanup deleting a session already at SESSION_TTL_MS.
idleAtTtl(ss, t) == {k \in DOMAIN ss : t - ss[k].lastSeen >= SESSION_TTL_MS}

\* The sessions the cleanup of one tick deletes.
idle(ss, t) == {k \in DOMAIN ss : t - ss[k].lastSeen > SESSION_TTL_MS}

\* "find p1/p2 sessions": the token of the last session with the role, or NULL.
findRole(ss, role) ==
  LET S == {k \in DOMAIN ss : ss[k].role = role}
  IN IF S = {} THEN NULL ELSE CHOOSE k \in S : \A j \in S : j <= k

\* The kick resolution of one player: shoot, then pass.
kicks(g, who, inp) ==
  LET g1 == IF inp.shoot THEN kick(g, who, "shoot") ELSE g
  IN IF inp.pass THEN kick(g1, who, "pass") ELSE g1

\* The countdown without Math.max(0, ...).
countdownUnclamped(left, hasTwo, dt) == IF hasTwo THEN left - dt ELSE left

\* What the matchLeft line of a tick makes of matchLeft.
countdown(left, hasTwo, dt) == IF hasTwo THEN Max(0, left - dt) ELSE left

\* The clock running only while both controlling sessions are registered.
advanceClockWhenBoth(t, hasBoth, dt) == IF hasBoth THEN t + dt ELSE t

\* What the game.t line of a tick makes of game.t: hasBoth, whether both
\* controlling sessions are registered, is not consulted.
advanceClock(t, hasBoth, dt) == t + dt

\* The sessions looked up with the expired ones still among them.
sweepKeepsAll(ss, gone) == ss

\* sessions.delete(token) for the expired tokens: the registry the rest of
\* the tick reads.
sweep(ss, gone) == [k \in DOMAIN ss \ gone |-> ss[k]]

\* The kickoff reset of the sweep applied on every tick.
sweepResetAlways(g, removedPlayer) == resetKickoff(g, "p1")

\* if (removedPlayer) resetKickoff("p1")
sweepReset(g, removedPlayer) == IF removedPlayer THEN resetKickoff(g, "p1") ELSE g

\* The flags cleared except a pass request.
clearShootOnly(inp) == [inp EXCEPT !.shoot = FALSE]

\* input.shoot = false; input.pass = false
clearFlags(inp) == [inp EXCEPT !.shoot = FALSE, !.pass = FALSE]

\* The setInterval callback.
Tick ==
  /\ now - last >= TICK_MS
  /\ \E dt \in {Min(MAX_DT, now - last)}, gone \in {idle(sessions, now)} :
     \E removedPlayer \in {\E k \in gone : sessions[k].role \in Roles},
        ended \in {{sessions[k].sseRes : k \in gone} \ {NULL}},
        ss1 \in {sweep(sessions, gone)} :
     \E g0 \in {sweepReset(game, removedPlayer)},
        p1S \in {findRole(ss1, "p1")},
        p2S \in {findRole(ss1, "p2")} :
     \E in1 \in {IF p1S # NULL THEN ss1[p1S].input ELSE input0},
        in2 \in {IF p2S # NULL THEN ss1[p2S].input ELSE input0},
        hasTwo \in {/\ p1S # NULL /\ ss1[p1S].sseRes # NULL
                    /\ p2S # NULL /\ ss1[p2S].sseRes # NULL} :
     \E g1 \in {[g0 EXCEPT !.matchLeft = countdown(@, hasTwo, dt)]} :
     \E g2 \in {IF p1S # NULL THEN [g1 EXCEPT !.players.p1 = applyMove(@, in1, dt)] ELSE g1} :
     \E g3 \in {IF p2S # NULL THEN [g2 EXCEPT !.players.p2 = applyMove(@, in2, dt)] ELSE g2} :
     \E g4 \in {updatePossession(g3)} :
     \E g5 \in {IF p1S # NULL THEN kicks(g4, "p1", in1) ELSE g4} :
     \E g6 \in {IF p2S # NULL THEN kicks(g5, "p2", in2) ELSE g5} :
     \E g7 \in {moveBall(g6, dt)}, g8 \in {updateBall(g6, dt)} :
     \E g9 \in {[g8 EXCEPT !.t = advanceClock(@, p1S # NULL /\ p2S # NULL, dt)]},
        ss2 \in {[k \in DOMAIN ss1 |->
                   IF k = p1S \/ k = p2S
                   THEN [ss1[k] EXCEPT !.input = clearFlags(@)]
                   ELSE ss1[k]]},
        cs1 \in {[c \in DOMAIN conns |->
                   IF c \in ended THEN [conns[c] EXCEPT !.ended = TRUE] ELSE conns[c]]},
        acc \in {sendAcc + dt} :
       /\ last' = now
       /\ sessions' = ss2
       /\ conns' = cs1
       /\ game' = g9
       /\ sendAcc' = IF acc >= SEND_MS THEN 0 ELSE acc
       /\ sent' = IF acc >= SEND_MS THEN broadcast(ss2, cs1) ELSE {}
       /\ resp' = NoResp
       /\ trace' = [ ran |-> TRUE, dt |-> dt, gone |-> gone, removedPlayer |-> removedPlayer,
                     lost |-> {[role |-> sessions[k].role, input |-> sessions[k].input] : k \in gone},
                     p1S |-> p1S, p2S |-> p2S, in1 |-> in1, in2 |-> in2, hasTwo |-> hasTwo,
                     swept |-> g0, moved |-> g3, possessed |-> g4, kicked1 |-> g5,
                     kicked2 |-> g6, rolled |-> g7 ]
       /\ calls' = [k \in DOMAIN calls \ gone |-> calls[k]]
       /\ UNCHANGED <<GAME_KEY, nextToken, now>>

\* Wall-clock time passes.
Advance(d) ==
  /\ now' = now + d
  /\ resp' = NoResp
  /\ trace' = NoTrace
  /\ UNCHANGED <<GAME_KEY, game, sessions, conns, nextToken, last, sendAcc, sent, calls>>

\* ------------------------------------------------------- the environment
\* How many POST /input token has made in the current wall-clock second.
callsNow(token) ==
  IF token \in DOMAIN calls /\ calls[token].sec = now \div 1000 THEN calls[token].n ELSE 0

\* Requests; the tokens presented are issued ones, live or expired.
Names == {<<65, 66, 67, 68, 69, 70, 71, 72, 73, 74, 75, 76, 77, 78, 79>>}
Keys == {"", "1234", "4321"}

JoinUpTo(maxTokens) ==
  \E name \in Names, key \in Keys : nextToken <= maxTokens /\ Join(name, key)
EventsUpTo(maxConns) ==
  \E token \in 1 .. (nextToken - 1) : Len(conns) < maxConns /\ Events(token)
CloseAny == \E res \in DOMAIN conns : EventsClose(res)
InputFrom(msgs, maxCalls) ==
  \E token \in 1 .. (nextToken - 1), msg \in msgs :
    callsNow(token) < maxCalls /\ Input(token, msg)
\* The clock is read at the instants of a set.
AdvanceTo(instants) == \E t \in instants : t > now /\ Advance(t - now)

\* ------------------------------------------- the lifecycle specification
Msgs == {[moveX |-> 2 * SCALE, moveZ |-> 0, sprint |-> FALSE, shoot |-> TRUE, pass |-> FALSE]}
\* A session last seen at 0 is exactly SESSION_TTL_MS old at the second
\* instant and older at the third.
Instants == {0, SESSION_TTL_MS, SESSION_TTL_MS + 20}

Next ==
  \/ JoinUpTo(MaxTokens)
  \/ EventsUpTo(MaxConns)
  \/ CloseAny
  \/ InputFrom(Msgs, MaxCalls)
  \/ Health
  \/ Tick
  \/ AdvanceTo(Instants)

Spec == Init /\ [][Next]_vars

\* ----------------------------------------------- the keyed specification
\* The lifecycle of a server started with GAME_KEY=1234.
InitKeyed ==
  /\ GAME_KEY = "1234"
  /\ game = game0
  /\ sessions = << >>
  /\ conns = << >>
  /\ nextToken = 1
  /\ now = 0
  /\ last = 0
  /\ sendAcc = 0
  /\ sent = {}
  /\ resp = NoResp
  /\ trace = NoTrace
  /\ calls = << >>

SpecKeyed == InitKeyed /\ [][Next]_vars

\* ---------------------------------------------- the stream specification
\* The lifecycle with two streams and two tokens.
NextStream ==
  \/ JoinUpTo(StreamTokens)
  \/ EventsUpTo(StreamConns)
  \/ CloseAny
  \/ InputFrom(Msgs, MaxCalls)
  \/ Tick
  \/ AdvanceTo(Instants)

SpecStream == Init /\ [][NextStream]_vars

\* -------------------------------------------- the liveness specification
\* The timer keeps firing and the clock keeps running.  Requests stop
\* SESSION_TTL_MS before the last instant, so that every session's expiry
\* falls within the instants.
LiveInstants == Instants \cup {2 * SESSION_TTL_MS + 40}
Quiet == now + SESSION_TTL_MS >= 2 * SESSION_TTL_MS + 40

NextLive ==
  \/ ~Quiet /\ JoinUpTo(LiveTokens)
  \/ ~Quiet /\ EventsUpTo(LiveConns)
  \/ CloseAny
  \/ ~Quiet /\ InputFrom(Msgs, MaxCalls)
  \/ Tick
  \/ AdvanceTo(LiveInstants)

SpecLive ==
  Init /\ [][NextLive]_vars /\ WF_vars(Tick) /\ WF_vars(AdvanceTo(LiveInstants))

\* ------------------------------------------------ the rate specification
RateMsgs ==
  { [moveX |-> 2 * SCALE, moveZ |-> 0, sprint |-> FALSE, shoot |-> TRUE, pass |-> FALSE] }
\* The last millisecond of one wall-clock second and the first of the next.
RateInstants == {0, 999, 1000}

NextRate ==
  \/ JoinUpTo(RateTokens)
  \/ InputFrom(RateMsgs, MAX_INPUT_PER_SEC + RateExtra)
  \/ Tick
  \/ AdvanceTo(RateInstants)

SpecRate == Init /\ [][NextRate]_vars

\* --------------------------------------------- the simulation specification
\* A match under way: both controlling sessions joined at 0 with their streams
\* open, the ball and the players somewhere on the field.
BallRest == [x |-> 0, z |-> 0, vx |-> 0, vz |-> 0]
BallRight == [x |-> 19900, z |-> 0, vx |-> 16000, vz |-> 0]
BallLeft == [x |-> -19900, z |-> 4200, vx |-> -16000, vz |-> 0]
BallPost == [x |-> 19900, z |-> 6000, vx |-> 16000, vz |-> 3000]
BallCorner == [x |-> -19900, z |-> -11900, vx |-> -9000, vz |-> -9000]
\* Where a player stands: at the kickoff spot (far) or at an offset from the ball.
Far == [far |-> TRUE, dx |-> 0, dz |-> 0]
At(dx, dz) == [far |-> FALSE, dx |-> dx, dz |-> dz]
Scene(b, o1, o2, left) == [b |-> b, o1 |-> o1, o2 |-> o2, left |-> left]
Scenes ==
  { Scene(BallRest, Far, Far, MATCH_DUR),
    Scene(BallRest, At(-500, 0), At(500, 0), MATCH_DUR),
    Scene(BallRest, At(-800, 0), At(300, 400), 30),
    Scene(BallRest, At(-500, 0), Far, MATCH_DUR),
    Scene(BallRest, Far, At(300, 400), MATCH_DUR),
    Scene(BallRight, Far, Far, MATCH_DUR),
    Scene(BallRight, At(-500, 0), Far, 30),
    Scene(BallLeft, Far, Far, MATCH_DUR),
    Scene(BallLeft, Far, At(500, 0), MATCH_DUR),
    Scene(BallPost, Far, Far, MATCH_DUR),
    Scene(BallCorner, Far, Far, MATCH_DUR),
    Scene(BallCorner, At(50, 23850), Far, MATCH_DUR) }

place(p, b, o, rot) ==
  IF o.far
  THEN [p EXCEPT !.rot = rot]
  ELSE [p EXCEPT !.x = clamp(b.x + o.dx, -(FIELD.w \div 2), FIELD.w \div 2),
                 !.z = clamp(b.z + o.dz, -(FIELD.h \div 2), FIELD.h \div 2),
                 !.rot = rot]

session0(role, res) ==
  [ role |-> role, name |-> sliceName(<< >>), input |-> input0, sseRes |-> res,
    lastSeen |-> 0, rateSec |-> 0, rateCount |-> 0 ]

InitScenes(scenes) ==
  /\ GAME_KEY = ""
  /\ \E s \in scenes :
       game = [game0 EXCEPT
                 !.t = MATCH_DUR - s.left,
                 !.matchLeft = s.left,
                 !.ball = s.b,
                 !.players.p1 = place([@ EXCEPT !.name = sliceName(<< >>)], s.b, s.o1, 90),
                 !.players.p2 = place([@ EXCEPT !.name = sliceName(<< >>)], s.b, s.o2, -90)]
  /\ sessions = <<session0("p1", 1), session0("p2", 2)>>
  /\ conns = << [token |-> 1, open |-> TRUE, ended |-> FALSE],
                [token |-> 2, open |-> TRUE, ended |-> FALSE] >>
  /\ nextToken = 3
  /\ now = 0
  /\ last = 0
  /\ sendAcc = 0
  /\ sent = {}
  /\ resp = NoResp
  /\ trace = NoTrace
  /\ calls = <<[sec |-> 0, n |-> 0], [sec |-> 0, n |-> 0]>>

InitPhys == InitScenes(Scenes)

PhysMsgs ==
  { [moveX |-> SCALE, moveZ |-> 0, sprint |-> FALSE, shoot |-> TRUE, pass |-> FALSE],
    [moveX |-> -SCALE, moveZ |-> SCALE, sprint |-> TRUE, shoot |-> FALSE, pass |-> TRUE] }
\* Up to three ticks, of 20 ms and of MAX_DT, or fewer and longer ones capped
\* at MAX_DT.
PhysInstants == {0, 20, 70, 120}

NextPhys ==
  \/ InputFrom(PhysMsgs, MaxCalls)
  \/ Tick
  \/ AdvanceTo(PhysInstants)

SpecPhys == InitPhys /\ [][NextPhys]_vars

\* -------------------------------------------- the countdown specification
\* The last milliseconds of a match, with every request.
MatchInstants == {0, 20, 70}

MatchScenes ==
  { Scene(BallRest, Far, Far, 30),
    Scene(BallRight, At(-500, 0), Far, 30) }

InitMatch == InitScenes(MatchScenes)

NextMatch ==
  \/ JoinUpTo(MatchTokens)
  \/ EventsUpTo(MatchConns)
  \/ CloseAny
  \/ InputFrom(Msgs, MaxCalls)
  \/ Tick
  \/ AdvanceTo(MatchInstants)

SpecMatch == InitMatch /\ [][NextMatch]_vars

\* ---------------------------------------------- the full-time specification
\* The end of a match and what follows it: goals, the expiry of both
\* controlling sessions, new sessions and their streams.
FullTimeTokens == 4
FullTimeConns == 4
FullTimeScenes ==
  { Scene(BallRight, Far, Far, 30),
    Scene(BallRight, Far, Far, 0) }

InitFullTime == InitScenes(FullTimeScenes)

\* A tick of 20 ms, the sessions of the scene expired at the next one, and
\* one more tick for the sessions that follow them.
FullTimeInstants == {0, 20, SESSION_TTL_MS + 20, SESSION_TTL_MS + 40}

NextFullTime ==
  \/ JoinUpTo(FullTimeTokens)
  \/ EventsUpTo(FullTimeConns)
  \/ Tick
  \/ AdvanceTo(FullTimeInstants)

SpecFullTime == InitFullTime /\ [][NextFullTime]_vars

\* ------------------------------------------------ the rejoin specification
\* Joins before and after expiries, the sessions kept alive by POST /input.
NextRejoin ==
  \/ JoinUpTo(RejoinTokens)
  \/ InputFrom(Msgs, MaxCalls)
  \/ Tick
  \/ AdvanceTo(Instants)

SpecRejoin == Init /\ [][NextRejoin]_vars

\* ------------------------------------------------- the order specification
\* A match under way, one session kept alive past the expiry of the other.
OrderScenes ==
  { Scene(BallRest, Far, Far, MATCH_DUR),
    Scene(BallRest, At(-500, 0), Far, MATCH_DUR),
    Scene(BallRest, Far, At(500, 0), MATCH_DUR) }

InitOrder == InitScenes(OrderScenes)

\* A session last seen at 0 has expired at the third instant, one last seen
\* at 20 has not.
OrderInstants == {0, 20, SESSION_TTL_MS + 20}

NextOrder ==
  \/ InputFrom(PhysMsgs, MaxCalls)
  \/ Tick
  \/ AdvanceTo(OrderInstants)

SpecOrder == InitOrder /\ [][NextOrder]_vars

\* ------------------------------------------------------------- properties
Holds(ss, role) == \E k \in DOMAIN ss : ss[k].role = role
Attached(ss, role) == \E k \in DOMAIN ss : ss[k].role = role /\ ss[k].sseRes # NULL

\* C1: in every reachable state the registry holds at most one session with
\* role p1 and at most one with role p2.
C1_RolesUnique ==
  /\ Cardinality({k \in DOMAIN sessions : sessions[k].role = "p1"}) <= 1
  /\ Cardinality({k \in DOMAIN sessions : sessions[k].role = "p2"}) <= 1

\* Three sessions, one of each role, the primary with a stream, after a tick.
C1_Witness ==
  /\ Holds(sessions, "p1") /\ Holds(sessions, "p2") /\ Holds(sessions, "spec")
  /\ Attached(sessions, "p1")
  /\ trace.ran

\* C2: a successful join returns p1 if no session holds p1, else p2 if none
\* holds p2, else spec, and registers the new session with that role; while
\* the first three tokens are all registered their roles are p1, p2, spec.
C2_JoinRole ==
  [][ /\ (resp'.op = "join" /\ resp'.status = 200) =>
           /\ resp'.role = IF ~Holds(sessions, "p1") THEN "p1"
                           ELSE IF ~Holds(sessions, "p2") THEN "p2" ELSE "spec"
           /\ resp'.token \notin DOMAIN sessions
           /\ resp'.token \in DOMAIN sessions'
           /\ sessions'[resp'.token].role = resp'.role
      /\ {1, 2, 3} \subseteq DOMAIN sessions' =>
           /\ sessions'[1].role = "p1"
           /\ sessions'[2].role = "p2"
           /\ sessions'[3].role = "spec" ]_vars

\* The third join answers spec while the first session has a stream and the
\* second has none.
C2_Witness ==
  /\ resp.op = "join" /\ resp.status = 200 /\ resp.token = 3 /\ resp.role = "spec"
  /\ {1, 2} \subseteq DOMAIN sessions
  /\ sessions[1].sseRes # NULL /\ sessions[2].sseRes = NULL

\* C3 as claimed: game.t increases only on a tick during which both a p1
\* and a p2 session are registered.
C3_ClockOnlyWithBoth ==
  [][ game'.t > game.t => (Holds(sessions', "p1") /\ Holds(sessions', "p2")) ]_vars

\* C3 amended: every tick adds its dt (the time since the previous tick,
\* capped at MAX_DT) to game.t and so increases it, whatever sessions are
\* registered; no other step changes game.t.
C3_ClockEveryTick ==
  [][ IF trace'.ran
      THEN game'.t = game.t + Min(MAX_DT, now - last) /\ game'.t > game.t
      ELSE game'.t = game.t ]_vars

\* A tick has advanced game.t with no controlling session registered.
C3_Witness ==
  /\ trace.ran /\ trace.p1S = NULL /\ trace.p2S = NULL
  /\ game.t > 0

\* C4: game.matchLeft is never negative, and it changes only in a tick at
\* which a p1 session and a p2 session are registered, each with a stream
\* handle: no request, stream close, goal or kickoff reset changes it.
C4_Countdown ==
  [][ /\ game.matchLeft >= 0 /\ game'.matchLeft >= 0
      /\ game'.matchLeft # game.matchLeft =>
           /\ trace'.ran
           /\ Attached(sessions, "p1") /\ Attached(sessions, "p2")
           /\ Attached(sessions', "p1") /\ Attached(sessions', "p2") ]_vars

\* A tick longer than what was left has stopped the countdown at 0.
C4_Witness ==
  /\ trace.ran /\ trace.hasTwo
  /\ trace.swept.matchLeft > 0 /\ trace.swept.matchLeft < trace.dt
  /\ game.matchLeft = 0

\* C5 as claimed: when the transport of a superseded response closes, the
\* session keeps the handle of its newest response.
C5_NewestHandleStays ==
  [][ \A res \in DOMAIN conns :
        LET k == conns[res].token
        IN ( /\ conns[res].open /\ ~conns'[res].open
             /\ k \in DOMAIN sessions
             /\ sessions[k].sseRes # NULL /\ sessions[k].sseRes # res )
           => ( k \in DOMAIN sessions' /\ sessions'[k].sseRes = sessions[k].sseRes ) ]_vars

\* A session leaves the registry only in a tick at which it is older than
\* SESSION_TTL_MS, that tick ends its response if it has one, and every tick
\* removes every session that old.
C6_Removal ==
  [][ \A k \in DOMAIN sessions :
        /\ k \notin DOMAIN sessions' =>
             /\ trace'.ran
             /\ now - sessions[k].lastSeen > SESSION_TTL_MS
             /\ sessions[k].sseRes # NULL => conns'[sessions[k].sseRes].ended
        /\ (trace'.ran /\ now - sessions[k].lastSeen > SESSION_TTL_MS) =>
             k \notin DOMAIN sessions' ]_vars
\* A registered session is eventually removed, unless it makes another
\* authenticated call.
C6_Eventually ==
  \A k \in 1 .. LiveTokens :
    (k \in DOMAIN sessions)
      ~> (k \notin DOMAIN sessions \/ (resp.token = k /\ resp.status # 401))
\* C6: a session is removed exactly by the sweep of a tick at which
\* now - lastSeen exceeds SESSION_TTL_MS, which also ends its response; no
\* other step removes a session; and a session that makes no further
\* authenticated call is eventually removed, its stream open or not.
C6_Expiry == C6_Removal /\ C6_Eventually

\* A tick has removed a session whose transport is still open, and has ended
\* its response.
C6_Witness ==
  /\ trace.ran
  /\ \E res \in DOMAIN conns :
       /\ conns[res].token \in trace.gone
       /\ conns[res].open /\ conns[res].ended

\* The pendingInput a message becomes.
stored(msg) ==
  [ moveX |-> Max(-SCALE, Min(SCALE, msg.moveX)), moveZ |-> Max(-SCALE, Min(SCALE, msg.moveZ)),
    sprint |-> msg.sprint, shoot |-> msg.shoot, pass |-> msg.pass ]

\* C7: of the POST /input calls a controlling session makes in one wall-clock
\* second, the first 30 are answered 200 and store the message, every further
\* one is answered 429 and leaves the stored input as it was; the first call
\* of another second counts as the first again.
C7_RateLimit ==
  [][ \A k \in DOMAIN sessions :
        (resp'.op = "input" /\ resp'.token = k /\ sessions[k].role \in Roles) =>
          LET nth == IF calls[k].sec = now \div 1000 THEN calls[k].n + 1 ELSE 1
          IN /\ calls'[k].n = nth
             /\ nth <= 30 =>
                  /\ resp'.status = 200
                  /\ \E msg \in RateMsgs : sessions'[k].input = stored(msg)
             /\ nth > 30 =>
                  /\ resp'.status = 429
                  /\ sessions'[k].input = sessions[k].input ]_vars

\* In the second wall-clock second, a 31st call is refused after a tick has
\* cleared the shoot request of an accepted one.
C7_Witness ==
  /\ resp.op = "input" /\ resp.status = 429
  /\ now \div 1000 = 1
  /\ calls[resp.token] = [sec |-> 1, n |-> MAX_INPUT_PER_SEC + 1]
  /\ sessions[resp.token].input.moveX = SCALE
  /\ ~sessions[resp.token].input.shoot

\* C8: the two possession flags are never both true; when the arbitration of
\* a tick finds both players inside the control radius, p1 has the ball after
\* it iff p1 is not farther from it than p2, and p2 otherwise.
C8_Exclusive ==
  /\ ~(game.players.p1.hasBall /\ game.players.p2.hasBall)
  /\ trace.ran =>
       LET b == trace.moved.ball
           p1 == trace.moved.players.p1
           p2 == trace.moved.players.p2
           d1 == Hypot(b.x - p1.x, b.z - p1.z)
           d2 == Hypot(b.x - p2.x, b.z - p2.z)
       IN /\ ~(trace.possessed.players.p1.hasBall /\ trace.possessed.players.p2.hasBall)
          /\ (d1 < 1050 /\ d2 < 1050) =>
               /\ trace.possessed.players.p1.hasBall = (d1 <= d2)
               /\ trace.possessed.players.p2.hasBall = (d2 < d1)

\* Both players inside the radius at the same distance: p1 has the ball.
C8_Witness ==
  /\ trace.ran
  /\ LET b == trace.moved.ball
         p1 == trace.moved.players.p1
         p2 == trace.moved.players.p2
     IN /\ Hypot(b.x - p1.x, b.z - p1.z) < 1050
        /\ Hypot(b.x - p1.x, b.z - p1.z) = Hypot(b.x - p2.x, b.z - p2.z)
  /\ trace.possessed.players.p1.hasBall

SameBallAndFlags(g, h) ==
  /\ g.ball = h.ball
  /\ g.players.p1.hasBall = h.players.p1.hasBall
  /\ g.players.p2.hasBall = h.players.p2.hasBall

\* C9: when a controlling session requests shoot or pass and its player does
\* not possess the ball after the arbitration, its kick step leaves the ball
\* and both possession flags as they were.
C9_NoKickWithoutBall ==
  trace.ran =>
    /\ ( /\ trace.p1S # NULL /\ (trace.in1.shoot \/ trace.in1.pass)
         /\ ~trace.possessed.players.p1.hasBall )
       => SameBallAndFlags(trace.possessed, trace.kicked1)
    /\ ( /\ trace.p2S # NULL /\ (trace.in2.shoot \/ trace.in2.pass)
         /\ ~trace.possessed.players.p2.hasBall )
       => SameBallAndFlags(trace.kicked1, trace.kicked2)

\* p1 requests a shot while p2 has the ball.
C9_Witness ==
  /\ trace.ran /\ trace.p1S # NULL /\ trace.in1.shoot
  /\ ~trace.possessed.players.p1.hasBall
  /\ trace.possessed.players.p2.hasBall

AtKickoff(g) ==
  /\ g.players.p1.x = -10 * SCALE /\ g.players.p1.z = 0
  /\ g.players.p2.x = 10 * SCALE /\ g.players.p2.z = 0
  /\ g.ball.x = 0 /\ g.ball.z = 0

\* C10: a tick whose ball, moved and reflected, lies beyond the left edge
\* inside the goal band adds 1 to score.p2 alone, beyond the right edge 1 to
\* score.p1 alone, and either puts players and ball at the kickoff positions;
\* any other step leaves the score as it was.
C10_Goal ==
  [][ LET b == trace'.rolled.ball
          left == trace'.ran /\ b.x < -20 * SCALE /\ Abs(b.z) <= 4200
          right == trace'.ran /\ b.x > 20 * SCALE /\ Abs(b.z) <= 4200
      IN /\ left => /\ game'.score = [p1 |-> game.score.p1, p2 |-> game.score.p2 + 1]
                    /\ AtKickoff(game')
         /\ right => /\ game'.score = [p1 |-> game.score.p1 + 1, p2 |-> game.score.p2]
                     /\ AtKickoff(game')
         /\ (~left /\ ~right) => game'.score = game.score ]_vars

\* The ball has crossed the left edge at the very edge of the goal band.
C10_Witness ==
  /\ trace.ran
  /\ trace.rolled.ball.x < -20 * SCALE /\ Abs(trace.rolled.ball.z) = 4200
  /\ game.score.p2 = 1

\* What a kickoff reset is to leave: the players on their spots, at rest and
\* without the ball, the ball at the centre moving slowly toward the half of
\* the side named (p1 defends the negative x half).
KickoffLayout(g, kickoff) ==
  /\ AtKickoff(g)
  /\ g.players.p1.vx = 0 /\ g.players.p1.vz = 0 /\ ~g.players.p1.hasBall
  /\ g.players.p2.vx = 0 /\ g.players.p2.vz = 0 /\ ~g.players.p2.hasBall
  /\ g.ball.vz = 0 /\ Abs(g.ball.vx) <= 200
  /\ IF kickoff = "p1" THEN g.ball.vx < 0 ELSE g.ball.vx > 0
InitialFacing(g) ==
  /\ g.players.p1.rot = game0.players.p1.rot
  /\ g.players.p2.rot = game0.players.p2.rot
\* The goal a tick's ball, moved and reflected, lies in: "p1" for the goal
\* p1 defends, "p2" for the other, "" for none.
Conceded(tr) ==
  IF tr.rolled.ball.x < -20 * SCALE /\ Abs(tr.rolled.ball.z) <= 4200 THEN "p1"
  ELSE IF tr.rolled.ball.x > 20 * SCALE /\ Abs(tr.rolled.ball.z) <= 4200 THEN "p2"
  ELSE ""

\* C11 as claimed: right after the kickoff reset of a sweep (the game the
\* rest of the tick starts from) and of a goal (the game the tick ends with)
\* the players are on their spots with the facing angles of the initial
\* state, at rest and without the ball, and the ball is at the centre moving
\* slowly toward the conceding side, p1 after a sweep.
C11_KickoffFacing ==
  trace.ran =>
    /\ trace.removedPlayer =>
         KickoffLayout(trace.swept, "p1") /\ InitialFacing(trace.swept)
    /\ Conceded(trace) # "" =>
         KickoffLayout(game, Conceded(trace)) /\ InitialFacing(game)

\* The kickoff spot of a role, along x.
Spot(role) == IF role = "p1" THEN -10 * SCALE ELSE 10 * SCALE

\* C12: a tick whose sweep removes a p1 or p2 session applies the kickoff
\* reset naming p1, leaving score, clocks, names and facing alone, before it
\* consumes input: each player's movement of that tick starts from the
\* kickoff spot.  A tick whose sweep removes observers only, or nothing,
\* starts from the game as it was.
C12_SweepReset ==
  [][ trace'.ran =>
        LET lost == \E k \in DOMAIN sessions \ DOMAIN sessions' : sessions[k].role \in Roles
            g == trace'.swept
        IN IF lost
           THEN /\ KickoffLayout(g, "p1")
                /\ g.t = game.t /\ g.matchLeft = game.matchLeft /\ g.score = game.score
                /\ \A r \in Roles :
                     /\ g.players[r].name = game.players[r].name
                     /\ g.players[r].rot = game.players[r].rot
                     /\ trace'.moved.players[r].x =
                          Spot(r) + Quot(trace'.moved.players[r].vx * trace'.dt, 1000)
                     /\ trace'.moved.players[r].z =
                          Quot(trace'.moved.players[r].vz * trace'.dt, 1000)
           ELSE g = game ]_vars

\* A tick has removed the p1 session and reset the kickoff, and the p2
\* session, which stays, has moved its player from the spot.
C12_Witness ==
  /\ trace.ran /\ trace.removedPlayer
  /\ trace.p1S = NULL /\ trace.p2S # NULL
  /\ trace.moved.players.p2.vx # 0
  /\ game.players.p2.x # Spot("p2")

\* C13: a successful join takes p1 when no registered session holds it, and
\* p2 when p1 is held and p2 is not, observers in the registry or not; the
\* role of a registered session never changes.
C13_VacatedRole ==
  [][ /\ (resp'.op = "join" /\ resp'.status = 200) =>
           /\ (~Holds(sessions, "p1")) => sessions'[resp'.token].role = "p1"
           /\ (Holds(sessions, "p1") /\ ~Holds(sessions, "p2")) =>
                sessions'[resp'.token].role = "p2"
      /\ \A k \in DOMAIN sessions \cap DOMAIN sessions' :
           sessions'[k].role = sessions[k].role ]_vars

\* The p2 session has expired, the p1 session and an observer have not, and
\* the fourth join has taken p2 while the third session is still an observer.
C13_Witness ==
  /\ resp.op = "join" /\ resp.status = 200 /\ resp.token = 4 /\ resp.role = "p2"
  /\ DOMAIN sessions = {1, 3, 4}
  /\ sessions[1].role = "p1" /\ sessions[3].role = "spec"

\* The impulse a shoot or pass request asks for.
Power(inp) == IF inp.shoot THEN 16000 ELSE 10000
\* The kick of a tick's player that was honoured.
Honoured(tr, r) ==
  /\ (IF r = "p1" THEN tr.p1S ELSE tr.p2S) # NULL
  /\ LET inp == IF r = "p1" THEN tr.in1 ELSE tr.in2
     IN inp.shoot \/ inp.pass
  /\ tr.possessed.players[r].hasBall

\* C14: the steps of a tick follow one another.  The input of a session the
\* sweep removed moves and kicks nothing; a player has the ball after the
\* arbitration only if it is within the control radius where the movement
\* of this tick has put it; an honoured kick adds its impulse before the
\* ball is integrated, so the ball this tick ends with has moved with it;
\* and a snapshot goes only to sessions that survived the sweep.
C14_TickOrder ==
  trace.ran =>
    /\ \A l \in trace.lost :
         l.role \in Roles =>
           /\ trace.moved.players[l.role] = trace.swept.players[l.role]
           /\ IF l.role = "p1"
              THEN SameBallAndFlags(trace.possessed, trace.kicked1)
              ELSE SameBallAndFlags(trace.kicked1, trace.kicked2)
    /\ \A r \in Roles :
         trace.possessed.players[r].hasBall =>
           Hypot(trace.moved.ball.x - trace.moved.players[r].x,
                 trace.moved.ball.z - trace.moved.players[r].z) < 1050
    /\ \A r \in Roles :
         Honoured(trace, r) =>
           LET inp == IF r = "p1" THEN trace.in1 ELSE trace.in2
               rot == trace.possessed.players[r].rot
               vx0 == trace.possessed.ball.vx + Quot(Sin(rot) * Power(inp), SCALE)
               vz0 == trace.possessed.ball.vz + Quot(Cos(rot) * Power(inp), SCALE)
               vx == Quot(vx0 * Pow022(trace.dt), 1000)
               vz == Quot(vz0 * Pow022(trace.dt), 1000)
               x == trace.possessed.ball.x + Quot(vx * trace.dt, 1000)
               z == trace.possessed.ball.z + Quot(vz * trace.dt, 1000)
           IN /\ trace.kicked2.ball.vx = vx0 /\ trace.kicked2.ball.vz = vz0
              /\ (Abs(x) <= 20 * SCALE /\ Abs(z) <= 12 * SCALE) =>
                   /\ trace.rolled.ball = [x |-> x, z |-> z, vx |-> vx, vz |-> vz]
                   /\ game.ball = trace.rolled.ball
    /\ \A res \in sent :
         /\ conns[res].token \in DOMAIN sessions
         /\ conns[res].token \notin trace.gone
         /\ ~conns[res].ended

\* The p2 session, removed by this tick's sweep with a move and a pass
\* pending, has moved nothing, while the p1 session has moved its player and
\* received the snapshot.
C14_Witness ==
  /\ trace.ran /\ trace.p1S # NULL /\ trace.p2S = NULL
  /\ \E l \in trace.lost : l.role = "p2" /\ l.input.moveX # 0
  /\ trace.moved.players.p1.vx # 0
  /\ sent # {}

\* C15: a tick leaves every registered p1 or p2 session with shoot and pass
\* false, its kick honoured or not, and with the moveX, moveZ and sprint it
\* had before the tick.
C15_FlagsCleared ==
  [][ trace'.ran =>
        \A k \in DOMAIN sessions' :
          sessions'[k].role \in Roles =>
            /\ ~sessions'[k].input.shoot /\ ~sessions'[k].input.pass
            /\ sessions'[k].input.moveX = sessions[k].input.moveX
            /\ sessions'[k].input.moveZ = sessions[k].input.moveZ
            /\ sessions'[k].input.sprint = sessions[k].input.sprint ]_vars

\* The p2 session asked for a pass without having the ball: the request is
\* gone, the move and the sprint are still pending.
C15_Witness ==
  /\ trace.ran /\ trace.p2S # NULL
  /\ trace.in2.pass /\ ~trace.possessed.players.p2.hasBall
  /\ ~sessions[trace.p2S].input.pass
  /\ sessions[trace.p2S].input.moveX # 0 /\ sessions[trace.p2S].input.sprint

\* C16: POST /input with the token of a registered observer is answered 200,
\* never 429, and changes that session's lastSeen and nothing else: not its
\* input or rate counters, no other session, nothing of the game.
C16_ObserverInput ==
  [][ \A k \in DOMAIN sessions :
        (resp'.op = "input" /\ resp'.token = k /\ sessions[k].role \notin Roles) =>
          /\ resp'.status = 200
          /\ sessions' = [sessions EXCEPT ![k].lastSeen = now]
          /\ UNCHANGED <<GAME_KEY, game, conns, nextToken, last, sendAcc>> ]_vars

\* An observer registered at 0 has submitted a move at SESSION_TTL_MS.
C16_Witness ==
  /\ resp.op = "input" /\ resp.status = 200 /\ resp.role = "spec"
  /\ Holds(sessions, "p1") /\ Holds(sessions, "p2")
  /\ sessions[resp.token].lastSeen = SESSION_TTL_MS
  /\ sessions[resp.token].input = input0
  /\ sessions[resp.token].rateCount = 0

\* C17: a step that is not a tick (a join, a stream opening or closing, an
\* input, a health request) leaves the game as it was, except that a join
\* given p1 or p2 writes the joiner's name as that player's name.
C17_HandlerFrame ==
  [][ ~trace'.ran =>
        IF resp'.op = "join" /\ resp'.status = 200 /\ resp'.role \in Roles
        THEN game' = [game EXCEPT !.players[resp'.role].name = sessions'[resp'.token].name]
        ELSE game' = game ]_vars

\* A join has taken p1 and written its name while p2's player is away from
\* its spot and the clock has run.
C17_Witness ==
  /\ resp.op = "join" /\ resp.status = 200 /\ resp.role = "p1"
  /\ game.players.p1.name = sessions[resp.token].name
  /\ Len(game.players.p1.name) = NAME_MAX
  /\ game.players.p2.x # Spot("p2")
  /\ game.t > 0

\* C18: POST /join is answered 403 exactly when a key is configured and the
\* key presented differs from it; POST /input and GET /events are answered
\* 401 exactly when the token is not in the registry; and a request answered
\* 403 or 401 changes nothing: no session, no role, no name, no stream,
\* nothing of the game.
C18_Rejected ==
  [][ /\ resp'.op = "join" =>
           (resp'.status = 403 <=> (GAME_KEY # "" /\ resp'.key # GAME_KEY))
      /\ resp'.op \in {"input", "events"} =>
           (resp'.status = 401 <=> resp'.token \notin DOMAIN sessions)
      /\ resp'.status \in {401, 403} =>
           UNCHANGED <<GAME_KEY, game, sessions, conns, nextToken, last, sendAcc>> ]_vars

\* A join with a wrong key has been refused while a p1 session is
\* registered and a token has expired.
C18_Witness ==
  /\ resp.op = "join" /\ resp.status = 403 /\ resp.key = "4321"
  /\ Holds(sessions, "p1") /\ ~Holds(sessions, "p2")
  /\ \E k \in 1 .. (nextToken - 1) : k \notin DOMAIN sessions

InField(o) ==
  /\ Abs(o.x) <= FIELD.w \div 2
  /\ Abs(o.z) <= FIELD.h \div 2

\* C19: in every state (so at the end of every tick and after any sequence
\* of operations) both players and the ball lie inside the field rectangle,
\* |x| <= 20 and |z| <= 12: at a short edge the ball is put back on the
\* boundary or, on a goal, re-centred.
C19_InsideField ==
  /\ InField(game.players.p1)
  /\ InField(game.players.p2)
  /\ InField(game.ball)

\* A tick has carried the ball over the right short edge beside the goal and
\* left it on the boundary, moving back into the field.
C19_Witness ==
  /\ trace.ran
  /\ trace.kicked2.ball.x < FIELD.w \div 2
  /\ game.ball.x = FIELD.w \div 2
  /\ Abs(game.ball.z) > GOAL.halfH
  /\ game.ball.vx < 0

\* C20: in every step each score counter stays or grows and matchLeft stays
\* or shrinks, so neither is ever restored: not by a kickoff reset, not with
\* matchLeft at 0, not when the controlling sessions expire and others
\* join; and a tick that starts with matchLeft at 0 still advances game.t by
\* dt and still counts the goal of a ball over a goal line.
C20_Monotone ==
  [][ /\ game'.score.p1 >= game.score.p1
      /\ game'.score.p2 >= game.score.p2
      /\ game'.matchLeft <= game.matchLeft
      /\ (trace'.ran /\ game.matchLeft = 0) =>
           /\ game'.t = game.t + trace'.dt
           /\ trace'.rolled.ball.x > FIELD.w \div 2 =>
                game'.score.p1 = game.score.p1 + 1 ]_vars

\* A tick that started with matchLeft at 0 has counted a goal.
C20_Witness ==
  /\ trace.ran
  /\ trace.swept.matchLeft = 0
  /\ game.matchLeft = 0
  /\ game.score.p1 > trace.swept.score.p1
====
